---- MODULE Spec2Model ----
(***************************************************************************)
(* Model of the attendance-rate desktop application (attendance_app.py):   *)
(* the status taxonomy, AttendanceCalculator.calculate and count_weekdays, *)
(* and the AttendanceMainWindow state (attendance_data,                    *)
(* saved_monthly_records, start_date, end_date, target_rate) with its      *)
(* event handlers.  Labels, colours and message boxes are not modelled.    *)
(*                                                                         *)
(* Dates are QDate values, modelled by their Julian day number.  A date    *)
(* string "yyyy-MM-dd" is modelled by the number its digits spell,         *)
(* yyyyMMdd.                                                               *)
(* Rates are Python floats rounded to one decimal; they are modelled as    *)
(* integers counting hundredths of a percent (95.0 is 9500).               *)
(***************************************************************************)
EXTENDS Integers, Sequences, FiniteSets, TLC

VARIABLES
    phase,                  \* position of the application: constructing / running
    today,                  \* QDate.currentDate()
    attendance_data,        \* self.attendance_data: date string -> status
    saved_monthly_records,  \* self.saved_monthly_records: (year, month) -> snapshot
    start_date,             \* self.start_date
    end_date,               \* self.end_date
    target_rate,            \* self.target_rate
    monthly_cards,          \* the cards of self.monthly_layout, in grid order
    calc_data,              \* calculate(): argument data, as the sequence data.values()
    calc_weekdays,          \* calculate(): argument total_weekdays
    calc_results,           \* calculate(): the dictionaries returned so far
    wd_start,               \* count_weekdays(): argument start_date
    wd_end,                 \* count_weekdays(): argument end_date
    wd_results              \* count_weekdays(): the counts returned so far

appVars == <<phase, today, attendance_data, saved_monthly_records,
             start_date, end_date, target_rate, monthly_cards>>
calcVars == <<calc_data, calc_weekdays, calc_results>>
wdVars == <<wd_start, wd_end, wd_results>>
vars == <<phase, today, attendance_data, saved_monthly_records,
          start_date, end_date, target_rate, monthly_cards,
          calc_data, calc_weekdays, calc_results,
          wd_start, wd_end, wd_results>>

(***************************************************************************)
(* Bounds of the model.                                                    *)
(***************************************************************************)
MaxRecords == 4
MaxWeekdays == 3
WindowDays == 7
MaxClickDays == 3
MaxSampleVary == 1

(***************************************************************************)
(* AttendanceStatus                                                        *)
(***************************************************************************)
PRESENT == "PRESENT"
ABSENT == "ABSENT"
LATE == "LATE"
EARLY == "EARLY"
OUTING == "OUTING"
SICK == "SICK"

ALL == {PRESENT, ABSENT, LATE, EARLY, OUTING, SICK}

\* a status string that is not one of the six
UNKNOWN == "UNKNOWN"

(***************************************************************************)
(* QDate                                                                   *)
(***************************************************************************)
\* QDate(y, m, d): the Julian day number of a Gregorian date
QDate(y, m, d) ==
    LET a == (14 - m) \div 12
        yy == y + 4800 - a
        mm == m + 12 * a - 3
    IN  d + ((153 * mm + 2) \div 5) + 365 * yy + (yy \div 4)
          - (yy \div 100) + (yy \div 400) - 32045

\* the year, month and day of a Julian day
YearMonthDay(jd) ==
    LET a == jd + 32044
        b == (4 * a + 3) \div 146097
        c == a - ((146097 * b) \div 4)
        d == (4 * c + 3) \div 1461
        e == c - ((1461 * d) \div 4)
        m == (5 * e + 2) \div 153
    IN  << 100 * b + d - 4800 + (m \div 10),
           m + 3 - 12 * (m \div 10),
           e - ((153 * m + 2) \div 5) + 1 >>

year(jd) == YearMonthDay(jd)[1]
month(jd) == YearMonthDay(jd)[2]
day(jd) == YearMonthDay(jd)[3]

\* QDate.toString("yyyy-MM-dd")
toString(jd) ==
    LET ymd == YearMonthDay(jd)
    IN  ymd[1] * 10000 + ymd[2] * 100 + ymd[3]

\* QDate.fromString(s, "yyyy-MM-dd")
fromString(s) == QDate(s \div 10000, (s \div 100) % 100, s % 100)

\* QDate.dayOfWeek(): 1 = Monday .. 7 = Sunday
dayOfWeek(jd) == (jd % 7) + 1

isLeapYear(y) == (y % 4 = 0 /\ y % 100 # 0) \/ y % 400 = 0

\* QDate.daysInMonth() of the month m of year y
daysInMonth(y, m) ==
    IF m = 2 THEN (IF isLeapYear(y) THEN 29 ELSE 28)
    ELSE IF m \in {4, 6, 9, 11} THEN 30 ELSE 31

addDays(jd, n) == jd + n

\* QDate.addMonths(1): same day of the next month, clamped to its last day
addMonths1(jd) ==
    LET ymd == YearMonthDay(jd)
        y == ymd[1]
        m == ymd[2]
        d == ymd[3]
        ny == IF m = 12 THEN y + 1 ELSE y
        nm == IF m = 12 THEN 1 ELSE m + 1
        dim == daysInMonth(ny, nm)
    IN  QDate(ny, nm, IF d > dim THEN dim ELSE d)

\* current.dayOfWeek() in [1, 2, 3, 4, 5]
IsWeekday(jd) == dayOfWeek(jd) \in {1, 2, 3, 4, 5}

(***************************************************************************)
(* AttendanceCalculator.calculate                                          *)
(***************************************************************************)
\* round(num / den, ndigits) of Python, in hundredths: round half to even
RoundHalfEven(n, d) ==
    LET q == n \div d
        r == n % d
    IN  IF 2 * r < d THEN q
        ELSE IF 2 * r > d THEN q + 1
        ELSE IF q % 2 = 0 THEN q ELSE q + 1

Pow10(k) == IF k = 0 THEN 1 ELSE IF k = 1 THEN 10 ELSE 100

Round(num, den, ndigits) ==
    RoundHalfEven(num * Pow10(ndigits), den) * Pow10(2 - ndigits)

Max(a, b) == IF a >= b THEN a ELSE b

Tally_default_present(data, keys, counts) ==
    [status \in DOMAIN counts |->
        Cardinality({k \in keys : data[k] = status
                       \/ (status = PRESENT /\ data[k] \notin DOMAIN counts)})]

\* lines 66-69, the loop "for status in data.values(): if status in counts:
\* counts[status] += 1" over the entries under keys: one entry adds 1 to the
\* count of its status if counts has that status; the loop over several
\* entries adds what the loops over its two halves add
RECURSIVE Tally(_, _, _)
Tally(data, keys, counts) ==
    IF keys = {} THEN counts
    ELSE IF Cardinality(keys) = 1
    THEN LET status == data[CHOOSE k \in keys : TRUE]
         IN  IF status \in DOMAIN counts
             THEN [counts EXCEPT ![status] = @ + 1]
             ELSE counts
    ELSE LET lowest == CHOOSE k \in keys : \A j \in keys : k <= j
             highest == CHOOSE k \in keys : \A j \in keys : j <= k
             middle == (lowest + highest) \div 2
             first == Tally(data, {k \in keys : k <= middle}, counts)
             second == Tally(data, {k \in keys : k > middle},
                             [status \in DOMAIN counts |-> 0])
         IN  [status \in DOMAIN counts |-> first[status] + second[status]]

\* the empty dictionary {}
EmptyDict == << >>

\* lines 71-87: the equivalent absences of a tally
final_absences_sick(counts) ==
    counts[ABSENT] + counts[SICK]
      + (counts[LATE] \div 2) + (counts[EARLY] \div 2) + (counts[OUTING] \div 2)
      + (((counts[LATE] % 2) + (counts[EARLY] % 2) + (counts[OUTING] % 2)) \div 3)

final_absences_div3(counts) ==
    counts[ABSENT]
      + (counts[LATE] \div 3) + (counts[EARLY] \div 3) + (counts[OUTING] \div 3)
      + (((counts[LATE] % 2) + (counts[EARLY] % 2) + (counts[OUTING] % 2)) \div 3)

final_absences(counts) ==
    LET direct_absent == counts[ABSENT]
        late_pairs == counts[LATE] \div 2
        early_pairs == counts[EARLY] \div 2
        outing_pairs == counts[OUTING] \div 2
        same_type_penalty == late_pairs + early_pairs + outing_pairs
        late_rem == counts[LATE] % 2
        early_rem == counts[EARLY] % 2
        outing_rem == counts[OUTING] % 2
        mixed_type_penalty == (late_rem + early_rem + outing_rem) \div 3
    IN  direct_absent + same_type_penalty + mixed_type_penalty

\* lines 90-91: the rate of a period with absences, rounded and clamped
rate_unclamped(total_weekdays, absences) ==
    Round((total_weekdays - absences) * 100, total_weekdays, 1)

rate(total_weekdays, absences) ==
    Max(0, Round((total_weekdays - absences) * 100, total_weekdays, 1))

\* line 63: the result for a period without weekdays
vacuous_zero_rate == [rate |-> 0, counts |-> EmptyDict, final_absences |-> 0]

vacuous == [rate |-> 10000, counts |-> EmptyDict, final_absences |-> 0]

calculate(data, total_weekdays) ==
    IF total_weekdays = 0
    THEN vacuous
    ELSE LET counts == Tally(data, DOMAIN data, [status \in ALL |-> 0])
         IN  [rate |-> rate(total_weekdays, final_absences(counts)),
              counts |-> counts,
              final_absences |-> final_absences(counts)]

(***************************************************************************)
(* AttendanceCalculator.count_weekdays                                     *)
(***************************************************************************)
\* lines 102-108: the count of the loop over the days start .. last; the
\* loop over a range of days counts what its two halves count
RECURSIVE CountTo(_, _)
CountTo(start, last) ==
    IF last < start THEN 0
    ELSE IF start = last THEN (IF IsWeekday(start) THEN 1 ELSE 0)
    ELSE LET mid == (start + last) \div 2
         IN  CountTo(start, mid) + CountTo(addDays(mid, 1), last)

count_weekdays_exclusive(start, end) == CountTo(start, end - 1)

count_weekdays(start, end) == CountTo(start, end)

(***************************************************************************)
(* Values of the variables that a specification does not use.              *)
(***************************************************************************)
AppIdle ==
    /\ phase = "idle"
    /\ today = 0
    /\ attendance_data = EmptyDict
    /\ saved_monthly_records = EmptyDict
    /\ start_date = 0
    /\ end_date = 0
    /\ target_rate = 0
    /\ monthly_cards = << >>

CalcIdle ==
    /\ calc_data = << >>
    /\ calc_weekdays = 0
    /\ calc_results = << >>

WdIdle ==
    /\ wd_start = 0
    /\ wd_end = 0
    /\ wd_results = << >>

(***************************************************************************)
(* calculate as a state machine: the arguments are drawn from bounded      *)
(* sets, the function is called, and it is called again after one more     *)
(* record was added to data.                                               *)
(***************************************************************************)
RECURSIVE SeqsUpTo(_, _)
SeqsUpTo(S, n) ==
    IF n = 0 THEN {<< >>}
    ELSE LET shorter == SeqsUpTo(S, n - 1)
         IN  shorter \cup {Append(q, x) : q \in shorter, x \in S}

CalcStatuses == ALL \cup {UNKNOWN}
TypicalWeekdays == {16, 20}
CalcWeekdays == (0 .. MaxWeekdays) \cup TypicalWeekdays

CalcInit ==
    /\ calc_data \in SeqsUpTo(CalcStatuses, MaxRecords)
    /\ calc_weekdays \in CalcWeekdays
    /\ calc_results = << >>
    /\ AppIdle
    /\ WdIdle

CalcCall ==
    /\ calc_results = << >>
    /\ calc_results' = <<calculate(calc_data, calc_weekdays)>>
    /\ UNCHANGED <<calc_data, calc_weekdays>>
    /\ UNCHANGED appVars
    /\ UNCHANGED wdVars

CalcAddRecord ==
    /\ Len(calc_results) = 1
    /\ Len(calc_data) < MaxRecords
    /\ \E status \in CalcStatuses :
          /\ calc_data' = Append(calc_data, status)
          /\ calc_results' = Append(calc_results, calculate(calc_data', calc_weekdays))
    /\ UNCHANGED calc_weekdays
    /\ UNCHANGED appVars
    /\ UNCHANGED wdVars

CalcNext == CalcCall \/ CalcAddRecord

SpecCalc == CalcInit /\ [][CalcNext]_vars

(***************************************************************************)
(* count_weekdays as a state machine: the two dates are drawn from the     *)
(* days around a year boundary and around the end of February 2024.        *)
(***************************************************************************)
WdAnchors == {QDate(2023, 12, 28), QDate(2024, 2, 25)}
WdDates == UNION {a .. (a + WindowDays - 1) : a \in WdAnchors}

WdInit ==
    /\ wd_start \in WdDates
    /\ wd_end \in WdDates
    /\ wd_results = << >>
    /\ AppIdle
    /\ CalcIdle

WdCall ==
    /\ wd_results = << >>
    /\ wd_results' = <<count_weekdays(wd_start, wd_end)>>
    /\ UNCHANGED <<wd_start, wd_end>>
    /\ UNCHANGED appVars
    /\ UNCHANGED calcVars

WdNext == WdCall

SpecWeekdays == WdInit /\ [][WdNext]_vars


(***************************************************************************)
(* AttendanceMainWindow                                                    *)
(***************************************************************************)
\* dict[key] = value
Put(dict, key, value) == (key :> value) @@ dict

\* the dates "today" of the runs, the dates a user clicks in the calendar,
\* the dates a user enters as start date, the texts of the target combo box
Todays == {QDate(2025, 8, 18), QDate(2025, 9, 1)}
ClickFirst == QDate(2025, 8, 28)
ClickDates == ClickFirst .. (ClickFirst + MaxClickDays - 1)
StartDates == {QDate(2025, 8, 15)}
ClickStatuses == {PRESENT, ABSENT, LATE}
TargetTexts == {<<"9", "5", "%">>, <<"9", "0", "%">>}

\* the statuses initialize_sample_data draws
SampleStatuses == {PRESENT, LATE, EARLY, ABSENT}

\* text.replace("%", "")
RECURSIVE replace_percent(_)
replace_percent(text) ==
    IF text = << >> THEN << >>
    ELSE IF Head(text) = "%" THEN replace_percent(Tail(text))
    ELSE <<Head(text)>> \o replace_percent(Tail(text))

Digit(c) ==
    CASE c = "0" -> 0 [] c = "1" -> 1 [] c = "2" -> 2 [] c = "3" -> 3
      [] c = "4" -> 4 [] c = "5" -> 5 [] c = "6" -> 6 [] c = "7" -> 7
      [] c = "8" -> 8 [] c = "9" -> 9

\* int(digits)
RECURSIVE int(_)
int(digits) ==
    IF digits = << >> THEN 0
    ELSE 10 * int(SubSeq(digits, 1, Len(digits) - 1)) + Digit(digits[Len(digits)])

\* lines 241-242: the condition of the loop over the sample months
BeforeCurrentMonth(sample_date, current_date) ==
    \/ year(sample_date) < year(current_date)
    \/ (year(sample_date) = year(current_date)
          /\ month(sample_date) < month(current_date))

\* lines 250-268: the dictionary after the loop over the days of one sample
\* month: every weekday of month_start .. month_end is set to the status
\* rnd draws for it, the other entries stay
SampleDays(month_start, month_end, rnd, data) ==
    LET weekdays == {current \in month_start .. month_end : IsWeekday(current)}
        date_strs == {toString(current) : current \in weekdays}
    IN  [date_str \in date_strs \cup DOMAIN data |->
            IF date_str \in date_strs THEN rnd[fromString(date_str)]
            ELSE data[date_str]]

\* lines 241-283: the loop over the sample months; st holds attendance_data
\* and saved_monthly_records
RECURSIVE SampleMonths(_, _, _, _)
SampleMonths(sample_date, current_date, rnd, st) ==
    IF BeforeCurrentMonth(sample_date, current_date)
    THEN LET y == year(sample_date)
             m == month(sample_date)
             month_start == QDate(y, m, 1)
             month_end == QDate(y, m, daysInMonth(y, m))
             month_data == SampleDays(month_start, month_end, rnd, EmptyDict)
             total_weekdays == count_weekdays(month_start, month_end)
             result == calculate(month_data, total_weekdays)
             snapshot == [month |-> <<y, m>>,
                          rate |-> result.rate,
                          counts |-> result.counts,
                          weekdays |-> total_weekdays,
                          saved_date |-> toString(month_end)]
         IN  SampleMonths(addMonths1(sample_date), current_date, rnd,
                 [data |-> SampleDays(month_start, month_end, rnd, st.data),
                  saved |-> Put(st.saved, <<y, m>>, snapshot)])
    ELSE st

\* line 236
start_sample == QDate(2025, 8, 1)

initialize_sample_data(data, saved, current_date, rnd) ==
    SampleMonths(start_sample, current_date, rnd, [data |-> data, saved |-> saved])

initialize_data_exclusive(data, start, end) ==
    [k \in (DOMAIN data) \cup
            {toString(d) : d \in {e \in start .. (end - 1) : IsWeekday(e)}} |->
        IF k \in DOMAIN data THEN data[k] ELSE PRESENT]

initialize_data_overwrite(data, start, end) ==
    [k \in (DOMAIN data) \cup {toString(d) : d \in {e \in start .. end : IsWeekday(e)}} |->
        IF fromString(k) \in start .. end THEN PRESENT ELSE data[k]]

\* lines 516-527: attendance_data after the loop over start .. end: every
\* weekday without an entry is set to Present, the entries there are stay
initialize_data(data, start, end) ==
    LET weekdays == {current \in start .. end : IsWeekday(current)}
        date_strs == {toString(current) : current \in weekdays}
    IN  [date_str \in date_strs \cup DOMAIN data |->
            IF date_str \in DOMAIN data THEN data[date_str] ELSE PRESENT]

\* lines 562-571: period_data after the loop over start .. end: the entries
\* of data under the date strings of these days
get_period_data(data, start, end) ==
    LET date_strs == {toString(current) : current \in start .. end}
    IN  [date_str \in date_strs \cap DOMAIN data |-> data[date_str]]

\* the weekdays of the sample months, and those whose status varies
SampleWeekdays(current_date) ==
    {d \in start_sample .. current_date :
        IsWeekday(d) /\ BeforeCurrentMonth(d, current_date)}

VaryDays(current_date) ==
    {d \in SampleWeekdays(current_date) :
        Cardinality({e \in SampleWeekdays(current_date) : e < d}) < MaxSampleVary}

\* the draws of the statuses of the sample months: Present on every weekday
\* but at most one, which is one of VaryDays
SampleDraws(current_date) ==
    {[d \in SampleWeekdays(current_date) |->
         IF d \in VaryDays(current_date) THEN r[d] ELSE PRESENT] :
       r \in {q \in [VaryDays(current_date) -> SampleStatuses] :
                Cardinality({d \in VaryDays(current_date) : q[d] # PRESENT}) <= 1}}

\* Python's order of the tuples (year, month)
TupleLess(a, b) == a[1] < b[1] \/ (a[1] = b[1] /\ a[2] < b[2])

sorted_descending(keys) ==
    IF keys = {} THEN << >>
    ELSE LET Before(k) == {j \in keys : TupleLess(k, j)}
         IN  [i \in 1 .. Cardinality(keys) |->
                 CHOOSE k \in keys : Cardinality(Before(k)) = i - 1]

\* line 654: sorted(..., key=lambda x: x[0]), the keys in ascending order
sorted(keys) ==
    IF keys = {} THEN << >>
    ELSE LET Before(k) == {j \in keys : TupleLess(j, k)}
         IN  [i \in 1 .. Cardinality(keys) |->
                 CHOOSE k \in keys : Cardinality(Before(k)) = i - 1]

\* counts.get(status, 0)
get(counts, status, default) ==
    IF status \in DOMAIN counts THEN counts[status] ELSE default

\* lines 657-718: the card of one saved record: its month, rate, number of
\* weekdays and the counts of its details line
Card(month_key, month_info) ==
    [month |-> month_info.month,
     rate |-> month_info.rate,
     weekdays |-> month_info.weekdays,
     absent_count |-> get(month_info.counts, ABSENT, 0),
     late_count |-> get(month_info.counts, LATE, 0),
     early_count |-> get(month_info.counts, EARLY, 0)]

\* lines 636-718: the cards the layout holds afterwards, card i at row
\* i // 5 and column i % 5; without a saved record there is only the label
\* that says so
update_monthly_summary(saved) ==
    IF Cardinality(DOMAIN saved) = 0 THEN << >>
    ELSE LET sorted_records == sorted(DOMAIN saved)
         IN  [i \in 1 .. Len(sorted_records) |->
                 Card(sorted_records[i], saved[sorted_records[i]])]

\* lines 217-223: the fields as __init__ assigns them
AppInit ==
    /\ phase = "constructing"
    /\ today \in Todays
    /\ attendance_data = EmptyDict
    /\ saved_monthly_records = EmptyDict
    /\ start_date = today
    /\ end_date = addMonths1(today)
    /\ target_rate = 90
    /\ monthly_cards = << >>
    /\ CalcIdle
    /\ WdIdle

\* lines 225-228: the rest of __init__
StartUp ==
    /\ phase = "constructing"
    /\ \E rnd \in SampleDraws(today) :
         LET st == initialize_sample_data(attendance_data, saved_monthly_records,
                                          today, rnd)
         IN  /\ attendance_data' = initialize_data(st.data, start_date, end_date)
             /\ saved_monthly_records' = st.saved
             /\ monthly_cards' = update_monthly_summary(st.saved)
    /\ phase' = "running"
    /\ UNCHANGED <<today, start_date, end_date, target_rate>>
    /\ UNCHANGED calcVars
    /\ UNCHANGED wdVars

month_key_of_end(start, end) == <<year(end), month(end)>>

\* lines 583-585
month_key(start, end) == <<year(start), month(start)>>

DateClicked_weekend(qdate, accepted, new_status) ==
    IF accepted
    THEN /\ attendance_data' = Put(attendance_data, toString(qdate), new_status)
         /\ monthly_cards' = update_monthly_summary(saved_monthly_records)
         /\ UNCHANGED <<phase, today, saved_monthly_records,
                        start_date, end_date, target_rate>>
    ELSE UNCHANGED appVars

DateClicked_autosave(qdate, accepted, new_status) ==
    /\ IsWeekday(qdate)
    /\ accepted
    /\ attendance_data' = Put(attendance_data, toString(qdate), new_status)
    /\ LET new_data == Put(attendance_data, toString(qdate), new_status)
           total_weekdays == count_weekdays(start_date, end_date)
           result == calculate(get_period_data(new_data, start_date, end_date),
                               total_weekdays)
           key == month_key(start_date, end_date)
           saved == Put(saved_monthly_records, key,
                        [month |-> key,
                         rate |-> result.rate,
                         counts |-> result.counts,
                         weekdays |-> total_weekdays,
                         saved_date |-> toString(today)])
       IN  /\ saved_monthly_records' = saved
           /\ monthly_cards' = update_monthly_summary(saved)
    /\ UNCHANGED <<phase, today, start_date, end_date, target_rate>>

\* lines 529-547: a click on qdate; the dialog is accepted with new_status
\* selected, or closed
DateClicked(qdate, accepted, new_status) ==
    IF IsWeekday(qdate) /\ accepted
    THEN /\ attendance_data' = Put(attendance_data, toString(qdate), new_status)
         /\ monthly_cards' = update_monthly_summary(saved_monthly_records)
         /\ UNCHANGED <<phase, today, saved_monthly_records,
                        start_date, end_date, target_rate>>
    ELSE UNCHANGED appVars

on_date_clicked ==
    /\ phase = "running"
    /\ \E qdate \in ClickDates :
          \/ \E new_status \in ClickStatuses : DateClicked(qdate, TRUE, new_status)
          \/ DateClicked(qdate, FALSE, PRESENT)
    /\ UNCHANGED calcVars
    /\ UNCHANGED wdVars

\* lines 549-555; the dateChanged signal carries a date other than the shown one
on_start_date_changed ==
    /\ phase = "running"
    /\ \E qdate \in StartDates \cup Todays :
          /\ qdate # start_date
          /\ start_date' = qdate
          /\ end_date' = addMonths1(qdate)
          /\ attendance_data' = initialize_data(attendance_data, start_date', end_date')
          /\ monthly_cards' = update_monthly_summary(saved_monthly_records)
    /\ UNCHANGED <<phase, today, saved_monthly_records, target_rate>>
    /\ UNCHANGED calcVars
    /\ UNCHANGED wdVars

\* lines 557-560; the currentTextChanged signal carries a text other than the shown one
on_target_changed ==
    /\ phase = "running"
    /\ \E text \in TargetTexts :
          /\ int(replace_percent(text)) # target_rate
          /\ target_rate' = int(replace_percent(text))
          /\ monthly_cards' = update_monthly_summary(saved_monthly_records)
    /\ UNCHANGED <<phase, today, attendance_data, saved_monthly_records,
                   start_date, end_date>>
    /\ UNCHANGED calcVars
    /\ UNCHANGED wdVars

\* lines 573-604
save_current_month ==
    /\ phase = "running"
    /\ UNCHANGED <<phase, today, attendance_data, start_date, end_date, target_rate>>
    /\ LET period_data == get_period_data(attendance_data, start_date, end_date)
           total_weekdays == count_weekdays(start_date, end_date)
           result == calculate(period_data, total_weekdays)
           key == month_key(start_date, end_date)
           saved == Put(saved_monthly_records, key,
                        [month |-> key,
                         rate |-> result.rate,
                         counts |-> result.counts,
                         weekdays |-> total_weekdays,
                         saved_date |-> toString(today)])
       IN  /\ saved_monthly_records' = saved
           /\ monthly_cards' = update_monthly_summary(saved)
    /\ UNCHANGED calcVars
    /\ UNCHANGED wdVars

Init == AppInit

Next ==
    \/ StartUp
    \/ on_date_clicked
    \/ on_start_date_changed
    \/ on_target_changed
    \/ save_current_month

Spec == Init /\ [][Next]_vars

(***************************************************************************)
(* Properties of calculate (checked under SpecCalc).                       *)
(***************************************************************************)
\* the number of records of calc_data that carry the status s
N(s) == Cardinality({i \in DOMAIN calc_data : calc_data[i] = s})

Called == calc_results # << >>

\* the dictionary returned by the last call, and by the call before it
calc_result == calc_results[Len(calc_results)]
calc_prev == calc_results[Len(calc_results) - 1]

\* C1: for total_weekdays > 0 the returned final_absences is
\* N(Absent) + N(Late) div 2 + N(EarlyLeave) div 2 + N(Outing) div 2
\* + ((N(Late) mod 2 + N(EarlyLeave) mod 2 + N(Outing) mod 2) div 3);
\* Present, Sick and unrecognized records contribute nothing.
C1_FinalAbsences ==
    (Called /\ calc_weekdays > 0) =>
        calc_result.final_absences =
            N(ABSENT) + (N(LATE) \div 2) + (N(EARLY) \div 2) + (N(OUTING) \div 2)
              + (((N(LATE) % 2) + (N(EARLY) % 2) + (N(OUTING) % 2)) \div 3)

\* one Late, one EarlyLeave, one Outing and a Sick day make one absence
C1_Witness ==
    /\ Called
    /\ calc_weekdays = 20
    /\ N(LATE) = 1 /\ N(EARLY) = 1 /\ N(OUTING) = 1 /\ N(SICK) = 1
    /\ calc_result.final_absences = 1
    /\ calc_result.rate = 9500

\* the last record of calc_data was added after the previous call and
\* carries a penalty-eligible status
AddedPenaltyRecord ==
    /\ Len(calc_results) = 2
    /\ calc_data[Len(calc_data)] \in {LATE, EARLY, OUTING}

\* C2: for a fixed total_weekdays > 0, one more Late, EarlyLeave or Outing
\* record never decreases final_absences and never increases rate.
C2_Monotone ==
    [][(/\ Called
        /\ Len(calc_results') = Len(calc_results) + 1
        /\ calc_weekdays > 0
        /\ calc_weekdays' = calc_weekdays
        /\ Len(calc_data') = Len(calc_data) + 1
        /\ SubSeq(calc_data', 1, Len(calc_data)) = calc_data
        /\ calc_data'[Len(calc_data')] \in {LATE, EARLY, OUTING})
       => (/\ calc_results'[Len(calc_results')].final_absences >= calc_result.final_absences
           /\ calc_results'[Len(calc_results')].rate <= calc_result.rate)]_vars

\* a second Late is added to one Late, one EarlyLeave and one Outing: the
\* mixed-type penalty is lost and a same-type pair is gained
C2_Witness ==
    /\ AddedPenaltyRecord
    /\ calc_weekdays > 0
    /\ calc_data[Len(calc_data)] = LATE
    /\ N(LATE) = 2 /\ N(EARLY) = 1 /\ N(OUTING) = 1
    /\ calc_prev.final_absences = 1
    /\ calc_result.final_absences = 1

\* C3: for every total_weekdays >= 0 the returned rate lies in [0, 100] and
\* is a multiple of 0.1, and it is 0 when final_absences exceeds
\* total_weekdays.
C3_RateRange ==
    Called =>
        /\ 0 <= calc_result.rate
        /\ calc_result.rate <= 10000
        /\ calc_result.rate % 10 = 0
        /\ (calc_result.final_absences > calc_weekdays => calc_result.rate = 0)

\* more absences than weekdays: the rate is clamped to 0
C3_Witness ==
    /\ Called
    /\ calc_weekdays > 0
    /\ calc_result.final_absences > calc_weekdays
    /\ calc_result.rate = 0

\* C4: when total_weekdays = 0 the returned rate is 100.0 and final_absences
\* is 0, whatever the records are.
C4_ZeroWeekdays ==
    (Called /\ calc_weekdays = 0) =>
        /\ calc_result.rate = 10000
        /\ calc_result.final_absences = 0

\* a call with total_weekdays = 0 and records that hold absences
C4_Witness ==
    /\ Called
    /\ calc_weekdays = 0
    /\ N(ABSENT) >= 2
    /\ calc_result.rate = 10000

\* C5: when total_weekdays = 0 the returned counts has an entry for each of
\* the six statuses, each with value 0.
C5_ZeroCountsAllStatuses ==
    (Called /\ calc_weekdays = 0) =>
        /\ DOMAIN calc_result.counts = ALL
        /\ \A s \in ALL : calc_result.counts[s] = 0

\* C7: for total_weekdays > 0, counts has the six statuses as its keys,
\* counts[s] is the number of records with status s, and the counts sum to
\* the number of records that carry a recognized status.
C7_Tally ==
    (Called /\ calc_weekdays > 0) =>
        /\ DOMAIN calc_result.counts = ALL
        /\ \A s \in ALL : calc_result.counts[s] = N(s)
        /\ calc_result.counts[PRESENT] + calc_result.counts[ABSENT]
             + calc_result.counts[LATE] + calc_result.counts[EARLY]
             + calc_result.counts[OUTING] + calc_result.counts[SICK]
           = Cardinality({i \in DOMAIN calc_data : calc_data[i] \in ALL})

\* records with an unrecognized status next to recognized ones
C7_Witness ==
    /\ Called
    /\ calc_weekdays > 0
    /\ N(UNKNOWN) = 2
    /\ N(LATE) = 2
    /\ calc_result.counts[LATE] = 2
    /\ calc_result.counts[PRESENT] = 0

(***************************************************************************)
(* Properties of count_weekdays (checked under SpecWeekdays).              *)
(***************************************************************************)
wd_result == wd_results[Len(wd_results)]

\* C6: count_weekdays(start, end) is the number of days d with
\* start <= d <= end that fall on Monday to Friday, it is 0 when
\* start > end, and it is 5 from Monday 2024-02-26 to Friday 2024-03-01.
C6_CountWeekdays ==
    wd_results # << >> =>
        /\ wd_result = Cardinality({d \in wd_start .. wd_end : dayOfWeek(d) <= 5})
        /\ (wd_start > wd_end => wd_result = 0)
        /\ (toString(wd_start) = 20240226 /\ toString(wd_end) = 20240301
              => wd_result = 5)

\* the count from Monday 2024-02-26 to Friday 2024-03-01, across the leap day
C6_Witness ==
    /\ wd_start = QDate(2024, 2, 26)
    /\ wd_end = QDate(2024, 3, 1)
    /\ dayOfWeek(wd_start) = 1
    /\ dayOfWeek(wd_end) = 5
    /\ wd_end - wd_start = 4
    /\ wd_results # << >>
    /\ wd_result = 5

(***************************************************************************)
(* Properties of the main window (checked under Spec).                     *)
(***************************************************************************)
\* the records of attendance_data whose date lies in [start, end]
RecordsIn(start, end) ==
    [k \in {x \in DOMAIN attendance_data : fromString(x) \in start .. end} |->
        attendance_data[k]]

\* the key (year, month) of the start date
StartKey == <<year(start_date), month(start_date)>>

\* C8: save_current_month writes exactly one entry, under the key
\* (year, month) of the start date; it holds the rate and counts that
\* calculate yields for the records within [start, start + one month] and
\* weekdays = count_weekdays(start, start + one month); a previous snapshot
\* under that key is replaced and the snapshots under other keys are unchanged.
C8_Save ==
    [][(saved_monthly_records' # saved_monthly_records /\ save_current_month) =>
         LET period_end == addMonths1(start_date)
             weekdays == count_weekdays(start_date, period_end)
             result == calculate(RecordsIn(start_date, period_end), weekdays)
         IN  /\ DOMAIN saved_monthly_records' = (DOMAIN saved_monthly_records) \cup {StartKey}
             /\ saved_monthly_records'[StartKey].rate = result.rate
             /\ saved_monthly_records'[StartKey].counts = result.counts
             /\ saved_monthly_records'[StartKey].weekdays = weekdays
             /\ \A k \in (DOMAIN saved_monthly_records) \ {StartKey} :
                    saved_monthly_records'[k] = saved_monthly_records[k]]_vars

\* on 2025-09-01 the period starting mid-month on 2025-08-15 was saved over
\* the snapshot of August, with an absence in the period, next to a
\* snapshot of September
C8_Witness ==
    /\ phase = "running"
    /\ today = QDate(2025, 9, 1)
    /\ start_date = QDate(2025, 8, 15)
    /\ DOMAIN saved_monthly_records = {<<2025, 8>>, <<2025, 9>>}
    /\ saved_monthly_records[<<2025, 8>>].saved_date = 20250901
    /\ saved_monthly_records[<<2025, 8>>].weekdays = 22
    /\ saved_monthly_records[<<2025, 8>>].counts[ABSENT] = 1
    /\ saved_monthly_records[<<2025, 8>>].rate = 9550

\* the keys of the months from 2025-08 to the month before today
SampleKeys ==
    {<<y, m>> \in (2025 .. year(today)) \X (1 .. 12) :
        /\ 2025 * 12 + 8 <= y * 12 + m
        /\ y * 12 + m < year(today) * 12 + month(today)}

\* C9 (as amended): after start-up the snapshot store changes only through
\* save_current_month: a click on a date, a start-date change and a target
\* change leave it unchanged, and a save changes only the snapshot under
\* the key of the start date, so a snapshot keeps its values while the
\* records are edited.  Start-up creates a snapshot for every month from
\* 2025-08 to the month before today.
C9_StoreFrame ==
    [][/\ saved_monthly_records' # saved_monthly_records
            => /\ ~(on_date_clicked \/ on_start_date_changed \/ on_target_changed)
               /\ (save_current_month \/ StartUp)
       /\ StartUp => DOMAIN saved_monthly_records' = SampleKeys
       /\ phase = "running" =>
            \A k \in DOMAIN saved_monthly_records :
               /\ k \in DOMAIN saved_monthly_records'
               /\ (k # StartKey => saved_monthly_records'[k] = saved_monthly_records[k])
      ]_vars

\* a snapshot saved on 2025-08-18 without absence, the target changed and
\* the record of 2025-08-28 edited to Absent afterwards
C9_Witness ==
    /\ phase = "running"
    /\ today = QDate(2025, 8, 18)
    /\ <<2025, 8>> \in DOMAIN saved_monthly_records
    /\ saved_monthly_records[<<2025, 8>>].counts[ABSENT] = 0
    /\ saved_monthly_records[<<2025, 8>>].rate = 10000
    /\ attendance_data[20250828] = ABSENT
    /\ target_rate = 95

\* C9 (as stated): the snapshot store changes only through the save
\* action; start-up, a click on a date, a start-date change and a target
\* change never add, alter or remove a snapshot.
C9_Original ==
    [][saved_monthly_records' # saved_monthly_records
         => /\ ~(StartUp \/ on_date_clicked \/ on_start_date_changed \/ on_target_changed)
            /\ save_current_month
      ]_vars

\* the keys of attendance_data that a step adds or assigns another status
ChangedKeys ==
    {k \in DOMAIN attendance_data' :
        k \notin DOMAIN attendance_data \/ attendance_data'[k] # attendance_data[k]}

\* C10 (as amended): no step removes an entry of attendance_data.  A click
\* on a date changes at most the entry of one date, a weekday, to one of the
\* six statuses.  Start-up and a start-date change keep every existing
\* entry and add a Present entry for each weekday of the period
\* [start, start + one month] that had none (start-up also adds sample
\* entries for the weekdays of the months from 2025-08 to the month before
\* today).  A save and a target change leave attendance_data unchanged.
C10_RecordFrame ==
    [][/\ DOMAIN attendance_data \subseteq DOMAIN attendance_data'
       /\ attendance_data' # attendance_data
            => /\ (on_date_clicked \/ on_start_date_changed \/ StartUp)
               /\ ~(save_current_month \/ on_target_changed)
       /\ on_date_clicked =>
            /\ Cardinality(ChangedKeys) <= 1
            /\ \A k \in ChangedKeys :
                  /\ dayOfWeek(fromString(k)) <= 5
                  /\ attendance_data'[k] \in ALL
       /\ (on_start_date_changed \/ StartUp) =>
            /\ \A k \in DOMAIN attendance_data :
                  attendance_data'[k] = attendance_data[k]
            /\ \A d \in start_date' .. end_date' :
                  dayOfWeek(d) <= 5 => toString(d) \in DOMAIN attendance_data'
            /\ \A k \in ChangedKeys :
                  /\ dayOfWeek(fromString(k)) <= 5
                  /\ \/ /\ fromString(k) \in start_date' .. end_date'
                        /\ attendance_data'[k] = PRESENT
                     \/ /\ phase = "constructing"
                        /\ <<k \div 10000, (k \div 100) % 100>> \in SampleKeys
                        /\ attendance_data'[k] \in SampleStatuses
      ]_vars

\* after two dates were set to Late and Absent the start date was moved
\* from 2025-08-18 to 2025-08-15: the entry of 2025-08-15 was added and the
\* two assignments are kept
C10_Witness ==
    /\ phase = "running"
    /\ today = QDate(2025, 8, 18)
    /\ start_date = QDate(2025, 8, 15)
    /\ 20250815 \in DOMAIN attendance_data
    /\ attendance_data[20250815] = PRESENT
    /\ attendance_data[20250828] = LATE
    /\ attendance_data[20250829] = ABSENT

\* C10 (as stated): once the application runs, attendance_data changes
\* only through a click on a date; a start-date change and a save leave it
\* unchanged, and no step removes an entry.
C10_Original ==
    [][phase = "running" =>
         /\ attendance_data' # attendance_data
              => /\ on_date_clicked
                 /\ ~(on_start_date_changed \/ save_current_month)
         /\ DOMAIN attendance_data \subseteq DOMAIN attendance_data'
      ]_vars

\* the dates that are keys of attendance_data
RecordDates == {fromString(k) : k \in DOMAIN attendance_data}

\* C11: in every reachable state every key of attendance_data is the date
\* of a Monday to Friday and converts back to itself: a click on a Saturday
\* or Sunday leaves no entry, and neither start-up nor a start-date change
\* writes one for a weekend day.
C11_WeekdayKeys ==
    \A k \in DOMAIN attendance_data :
        /\ toString(fromString(k)) = k
        /\ dayOfWeek(fromString(k)) \in 1 .. 5

\* the period starts on Friday 2025-08-15 after a start-date change, the
\* record of Friday 2025-08-29 was set to Late by a click, and Saturday
\* 2025-08-30, a date of the period that can be clicked, has no entry
C11_Witness ==
    /\ phase = "running"
    /\ start_date = QDate(2025, 8, 15)
    /\ dayOfWeek(QDate(2025, 8, 30)) = 6
    /\ QDate(2025, 8, 30) \in ClickDates
    /\ QDate(2025, 8, 30) \in start_date .. end_date
    /\ QDate(2025, 8, 30) \notin RecordDates
    /\ 20250815 \in DOMAIN attendance_data
    /\ 20250829 \in DOMAIN attendance_data
    /\ attendance_data[20250829] = LATE

\* the calendar months from the month of the start date to the month of
\* today, numbered year * 12 + month - 1
MonthsToNow ==
    (year(start_date) * 12 + month(start_date) - 1) ..
        (year(today) * 12 + month(today) - 1)

\* the k-th of MonthsToNow as a key (year, month)
MonthKeyAt(k) ==
    LET n == (year(start_date) * 12 + month(start_date) - 1) + (k - 1)
    IN  <<n \div 12, (n % 12) + 1>>

\* calculate over the records of the calendar month key
LiveMonth(key) ==
    LET month_start == QDate(key[1], key[2], 1)
        month_end == QDate(key[1], key[2], daysInMonth(key[1], key[2]))
    IN  calculate(RecordsIn(month_start, month_end),
                  count_weekdays(month_start, month_end))

\* C12 (as stated): the monthly series holds one result per calendar month
\* from the month of the start date to the month of today, in ascending
\* order, each computed live over that calendar month.
C12_Original ==
    phase = "running" =>
        /\ Len(monthly_cards) = Cardinality(MonthsToNow)
        /\ \A i \in 1 .. Len(monthly_cards) :
               /\ monthly_cards[i].month = MonthKeyAt(i)
               /\ monthly_cards[i].rate = LiveMonth(MonthKeyAt(i)).rate

\* C12 (as amended): the monthly series holds exactly one card per saved
\* snapshot, in ascending (year, month) order, each showing the rate, the
\* weekdays and the counts of the snapshot as it was saved; and computing
\* the series again while the snapshots are unchanged yields the identical
\* sequence.
C12_SavedSeries ==
    /\ [](/\ Len(monthly_cards) = Cardinality(DOMAIN saved_monthly_records)
          /\ {monthly_cards[i].month : i \in 1 .. Len(monthly_cards)}
                = DOMAIN saved_monthly_records
          /\ \A i \in 1 .. Len(monthly_cards) :
                LET key == monthly_cards[i].month
                    snapshot == saved_monthly_records[key]
                IN  /\ monthly_cards[i].rate = snapshot.rate
                    /\ monthly_cards[i].weekdays = snapshot.weekdays
                    /\ monthly_cards[i].absent_count = snapshot.counts[ABSENT]
                    /\ monthly_cards[i].late_count = snapshot.counts[LATE]
                    /\ monthly_cards[i].early_count = snapshot.counts[EARLY]
          /\ \A i \in 1 .. Len(monthly_cards) - 1 :
                LET a == monthly_cards[i].month
                    b == monthly_cards[i + 1].month
                IN  a[1] * 12 + a[2] < b[1] * 12 + b[2])
    /\ [][saved_monthly_records' = saved_monthly_records
            => monthly_cards' = monthly_cards]_vars

\* on 2025-09-01 the series holds the cards of August and of September, in
\* this order; it was computed again after the target changed to 95 and
\* after the record of 2025-08-28 was set to Absent, and the card of August
\* still shows the snapshot without absence, not the live month
C12_Witness ==
    /\ phase = "running"
    /\ today = QDate(2025, 9, 1)
    /\ target_rate = 95
    /\ Len(monthly_cards) = 2
    /\ monthly_cards[1].month = <<2025, 8>>
    /\ monthly_cards[2].month = <<2025, 9>>
    /\ 20250828 \in DOMAIN attendance_data
    /\ attendance_data[20250828] = ABSENT
    /\ monthly_cards[1].absent_count = 0
    /\ LiveMonth(<<2025, 8>>).counts[ABSENT] = 1

\* lines 613-615: the live computation of update_display
LiveWeekdays == count_weekdays(start_date, end_date)
LiveResult ==
    calculate(get_period_data(attendance_data, start_date, end_date), LiveWeekdays)

\* C13: in every state of the running application end_date is start_date
\* plus one month and every weekday of [start_date, end_date] has an entry
\* in attendance_data; so the counts of the live computation sum to
\* count_weekdays(start_date, end_date), that number is never 0, and
\* final_absences never exceeds it: the rate is the one computed, not the
\* lower limit 0 standing in for a negative one.
C13_LiveView ==
    phase = "running" =>
        LET total_weekdays == LiveWeekdays
            result == LiveResult
            counts == result.counts
        IN  /\ end_date = addMonths1(start_date)
            /\ \A d \in start_date .. end_date :
                   dayOfWeek(d) \in 1 .. 5 => toString(d) \in DOMAIN attendance_data
            /\ total_weekdays > 0
            /\ DOMAIN counts = ALL
            /\ counts[PRESENT] + counts[ABSENT] + counts[LATE]
                 + counts[EARLY] + counts[OUTING] + counts[SICK] = total_weekdays
            /\ result.final_absences <= total_weekdays
            /\ result.rate =
                 Round((total_weekdays - result.final_absences) * 100,
                       total_weekdays, 1)

\* the period was moved to 2025-08-15 .. 2025-09-15 (22 weekdays), the
\* record of 2025-08-28 is Absent and that of 2025-08-29 is Late after two
\* clicks, and a snapshot of the period was saved
C13_Witness ==
    /\ phase = "running"
    /\ start_date = QDate(2025, 8, 15)
    /\ toString(end_date) = 20250915
    /\ LiveWeekdays = 22
    /\ 20250828 \in DOMAIN attendance_data
    /\ attendance_data[20250828] = ABSENT
    /\ attendance_data[20250829] = LATE
    /\ LiveResult.counts[ABSENT] = 1
    /\ LiveResult.final_absences = 1
    /\ <<2025, 8>> \in DOMAIN saved_monthly_records
    /\ saved_monthly_records[<<2025, 8>>].weekdays = 22

====
